---- MODULE Spec2Model ----
(***************************************************************************)
(* bevy_reflect: the Array / List capabilities, the erased containers      *)
(* DynamicArray and DynamicList, the iterator ArrayIter and the generic    *)
(* algorithms array_hash, array_apply, array_partial_eq, list_apply and    *)
(* list_partial_eq (crates/bevy_reflect/src/array.rs and list.rs).         *)
(*                                                                         *)
(* A reflectable value is a record [ty, name, v, values]:                  *)
(*   ty      the concrete type (its TypeId),                               *)
(*   name    the type-name label of an erased container,                   *)
(*   v       the payload of a plain value,                                 *)
(*   values  the owned elements of a container, in index order.            *)
(* Option<T> is a sequence: None is <<>>, Some(x) is <<x>>.                *)
(* An operation that may panic returns [val, ok]: the target as it is when *)
(* the operation returns (ok) or at the point of the panic (~ok).          *)
(***************************************************************************)
EXTENDS Integers, Sequences, FiniteSets, TLC

\* ---------------------------------------------------------------- bounds
\* The longest container the model builds (push is not offered beyond it).
MaxLen == 2
\* Plain i32 values are 1..MaxInt.
MaxInt == 2
\* How many times next() is called on an iterator that is already exhausted.
MaxOver == 1

\* ---------------------------------------------------------------- Option
None == <<>>
Some(x) == <<x>>
Unwrap(o) == o[1]

Max(a, b) == IF a >= b THEN a ELSE b
Min(a, b) == IF a <= b THEN a ELSE b

\* ------------------------------------------------ reflectable values
\* A plain hashable, comparable value (an i32).
I32(n) == [ty |-> "i32", name |-> "", v |-> n, values |-> <<>>]
\* A plain value that has neither a structural hash nor a partial equality.
Opaque == [ty |-> "Opaque", name |-> "", v |-> 0, values |-> <<>>]
\* The placeholder of an operation that takes no argument.
NoArg == [ty |-> "()", name |-> "", v |-> 0, values |-> <<>>]

DynamicArray_new(values) ==
    [ty |-> "DynamicArray", name |-> "", v |-> 0, values |-> values]

DynamicList_default ==
    [ty |-> "DynamicList", name |-> "", v |-> 0, values |-> <<>>]

set_name(self, name) == [self EXCEPT !.name = name]

\* ReflectRef: the kind a value reports through reflect_ref().
reflect_ref(x) ==
    CASE x.ty = "DynamicArray" -> "Array"
      [] x.ty = "DynamicList" -> "List"
      [] OTHER -> "Value"

\* ------------------------------------------------ Array capability
Array_get(self, index) ==
    IF index < Len(self.values) THEN Some(self.values[index + 1]) ELSE None

Array_len(self) == Len(self.values)

Array_is_empty(self) == Array_len(self) = 0

Array_iter(self) == [array |-> self, index |-> 0]

\* ------------------------------------------------ ArrayIter
ArrayIter_next(it) ==
    [value |-> Array_get(it.array, it.index),
     iter  |-> [it EXCEPT !.index = @ + 1]]

ArrayIter_size_hint(it) ==
    LET size == Array_len(it.array) IN <<size, Some(size)>>

\* ------------------------------------------------ List capability
List_push(self, value) == [self EXCEPT !.values = Append(@, value)]

\* ------------------------------------------------ plain values
\* The Reflect operations of a plain (non-container) value.
value_apply(self, value) ==
    IF value.ty = self.ty
    THEN [val |-> value, ok |-> TRUE]
    ELSE [val |-> self, ok |-> FALSE]

value_partial_eq(self, value) ==
    IF self.ty = "Opaque" THEN None
    ELSE IF value.ty = self.ty THEN Some(self.v = value.v)
    ELSE Some(FALSE)

\* ------------------------------------------------ ReflectHasher
HashMod == 2 ^ 16
Hasher_default == 0
Hasher_write(h, x) == (h * 31 + x + 7) % HashMod
Hasher_finish(h) == h

\* std::any::TypeId of a concrete type, as the number the hasher is fed.
TypeId(x) ==
    CASE x.ty = "i32" -> 11
      [] x.ty = "Opaque" -> 12
      [] x.ty = "DynamicArray" -> 13
      [] x.ty = "DynamicList" -> 14
      [] OTHER -> 15

value_hash(self) ==
    IF self.ty = "i32"
    THEN Some(Hasher_finish(Hasher_write(Hasher_write(Hasher_default, TypeId(self)), self.v)))
    ELSE None

RECURSIVE clone_value(_)
RECURSIVE reflect_hash(_)
RECURSIVE reflect_partial_eq(_, _)
RECURSIVE Reflect_apply(_, _)

\* ------------------------------------------------ cloning
\* Faulty variant: the clone keeps the name and forgets the elements.
DynamicArray_clone_empty(self) ==
    [ty |-> "DynamicArray", name |-> self.name, v |-> 0, values |-> <<>>]

DynamicArray_clone_dynamic_array(self) ==
    [ty |-> "DynamicArray", name |-> self.name, v |-> 0,
     values |-> [i \in 1..Len(self.values) |-> clone_value(self.values[i])]]

DynamicList_clone_dynamic_array(self) ==
    [ty |-> "DynamicArray", name |-> self.name, v |-> 0,
     values |-> [i \in 1..Len(self.values) |-> clone_value(self.values[i])]]

DynamicList_clone_dynamic_list(self) ==
    [ty |-> "DynamicList", name |-> self.name, v |-> 0,
     values |-> [i \in 1..Len(self.values) |-> clone_value(self.values[i])]]

\* Array::clone_dynamic_array, dispatched on the concrete container.
clone_dynamic_array(self) ==
    IF self.ty = "DynamicList"
    THEN DynamicList_clone_dynamic_array(self)
    ELSE DynamicArray_clone_dynamic_array(self)

clone_value(self) ==
    CASE self.ty = "DynamicArray" -> DynamicArray_clone_dynamic_array(self)
      [] self.ty = "DynamicList" -> DynamicList_clone_dynamic_list(self)
      [] OTHER -> self

\* ------------------------------------------------ array_hash
RECURSIVE array_hash_loop_skipping(_, _)
\* Faulty variant: an element without a hash is skipped instead of ending the hash.
array_hash_loop_skipping(hasher, it) ==
    LET n == ArrayIter_next(it) IN
    IF n.value = None THEN Some(Hasher_finish(hasher))
    ELSE LET h == reflect_hash(Unwrap(n.value)) IN
         IF h = None THEN array_hash_loop_skipping(hasher, n.iter)
         ELSE array_hash_loop_skipping(Hasher_write(hasher, Unwrap(h)), n.iter)

RECURSIVE array_hash_loop(_, _)
\* for value in array.iter() { hasher.write_u64(value.reflect_hash()?) }
array_hash_loop(hasher, it) ==
    LET n == ArrayIter_next(it) IN
    IF n.value = None THEN Some(Hasher_finish(hasher))
    ELSE LET h == reflect_hash(Unwrap(n.value)) IN
         IF h = None THEN None
         ELSE array_hash_loop(Hasher_write(hasher, Unwrap(h)), n.iter)

array_hash(array) ==
    LET h0 == Hasher_default
        h1 == Hasher_write(h0, TypeId(array))
        h2 == Hasher_write(h1, Array_len(array))
    IN array_hash_loop(h2, Array_iter(array))

reflect_hash(self) ==
    CASE self.ty = "DynamicArray" -> array_hash(self)
      [] self.ty = "DynamicList" -> array_hash(self)
      [] OTHER -> value_hash(self)

\* ------------------------------------------------ array_apply
RECURSIVE array_apply_loop_first(_, _)
\* Faulty variant: get_mut(0) instead of get_mut(i), every patch lands on element 0.
array_apply_loop_first(array, it) ==
    LET n == ArrayIter_next(it) IN
    IF n.value = None THEN [val |-> array, ok |-> TRUE]
    ELSE LET v == Array_get(array, 0)
         IN IF v = None THEN [val |-> array, ok |-> FALSE]
            ELSE LET r == Reflect_apply(Unwrap(v), Unwrap(n.value))
                     patched == [array EXCEPT !.values[1] = r.val]
                 IN IF r.ok THEN array_apply_loop_first(patched, n.iter)
                    ELSE [val |-> patched, ok |-> FALSE]

RECURSIVE array_apply_loop(_, _)
\* for (i, value) in reflect_array.iter().enumerate()
array_apply_loop(array, it) ==
    LET n == ArrayIter_next(it) IN
    IF n.value = None THEN [val |-> array, ok |-> TRUE]
    ELSE LET i == it.index
             v == Array_get(array, i)
         IN IF v = None THEN [val |-> array, ok |-> FALSE]
            ELSE LET r == Reflect_apply(Unwrap(v), Unwrap(n.value))
                     patched == [array EXCEPT !.values[i + 1] = r.val]
                 IN IF r.ok THEN array_apply_loop(patched, n.iter)
                    ELSE [val |-> patched, ok |-> FALSE]

\* Faulty variant: the lengths are not compared before the elements are patched.
array_apply_unchecked(array, reflect) ==
    IF reflect_ref(reflect) = "Array"
    THEN array_apply_loop(array, Array_iter(reflect))
    ELSE [val |-> array, ok |-> FALSE]

array_apply(array, reflect) ==
    IF reflect_ref(reflect) = "Array"
    THEN IF Array_len(array) # Array_len(reflect)
         THEN [val |-> array, ok |-> FALSE]
         ELSE array_apply_loop(array, Array_iter(reflect))
    ELSE [val |-> array, ok |-> FALSE]

\* ------------------------------------------------ list_apply
RECURSIVE list_apply_loop_no_push(_, _)
\* Faulty variant: the source's elements beyond the target's length are dropped.
list_apply_loop_no_push(a, it) ==
    LET n == ArrayIter_next(it) IN
    IF n.value = None THEN [val |-> a, ok |-> TRUE]
    ELSE LET i == it.index
             value == Unwrap(n.value)
         IN IF i < Array_len(a)
            THEN LET v == Array_get(a, i) IN
                 IF v = None THEN list_apply_loop_no_push(a, n.iter)
                 ELSE LET r == Reflect_apply(Unwrap(v), value)
                          patched == [a EXCEPT !.values[i + 1] = r.val]
                      IN IF r.ok THEN list_apply_loop_no_push(patched, n.iter)
                         ELSE [val |-> patched, ok |-> FALSE]
            ELSE list_apply_loop_no_push(a, n.iter)

RECURSIVE list_apply_loop_off_by_one(_, _)
\* Faulty variant: i + 1 < a.len() instead of i < a.len(), the last element is
\* appended to instead of patched.
list_apply_loop_off_by_one(a, it) ==
    LET n == ArrayIter_next(it) IN
    IF n.value = None THEN [val |-> a, ok |-> TRUE]
    ELSE LET i == it.index
             value == Unwrap(n.value)
         IN IF i + 1 < Array_len(a)
            THEN LET v == Array_get(a, i) IN
                 IF v = None THEN list_apply_loop_off_by_one(a, n.iter)
                 ELSE LET r == Reflect_apply(Unwrap(v), value)
                          patched == [a EXCEPT !.values[i + 1] = r.val]
                      IN IF r.ok THEN list_apply_loop_off_by_one(patched, n.iter)
                         ELSE [val |-> patched, ok |-> FALSE]
            ELSE list_apply_loop_off_by_one(List_push(a, clone_value(value)), n.iter)

RECURSIVE list_apply_loop(_, _)
\* for (i, value) in list_value.iter().enumerate()
list_apply_loop(a, it) ==
    LET n == ArrayIter_next(it) IN
    IF n.value = None THEN [val |-> a, ok |-> TRUE]
    ELSE LET i == it.index
             value == Unwrap(n.value)
         IN IF i < Array_len(a)
            THEN LET v == Array_get(a, i) IN
                 IF v = None THEN list_apply_loop(a, n.iter)
                 ELSE LET r == Reflect_apply(Unwrap(v), value)
                          patched == [a EXCEPT !.values[i + 1] = r.val]
                      IN IF r.ok THEN list_apply_loop(patched, n.iter)
                         ELSE [val |-> patched, ok |-> FALSE]
            ELSE list_apply_loop(List_push(a, clone_value(value)), n.iter)

\* Faulty variant: the target is cut to the source's length after the patch.
list_apply_truncating(a, b) ==
    IF reflect_ref(b) = "List"
    THEN LET r == list_apply_loop(a, Array_iter(b)) IN
         [r EXCEPT !.val.values =
            SubSeq(@, 1, Min(Len(@), Array_len(b)))]
    ELSE [val |-> a, ok |-> FALSE]

list_apply(a, b) ==
    IF reflect_ref(b) = "List"
    THEN list_apply_loop(a, Array_iter(b))
    ELSE [val |-> a, ok |-> FALSE]

Reflect_apply(self, value) ==
    CASE self.ty = "DynamicArray" -> array_apply(self, value)
      [] self.ty = "DynamicList" -> list_apply(self, value)
      [] OTHER -> value_apply(self, value)

\* ------------------------------------------------ partial equality
RECURSIVE array_partial_eq_loop_lenient(_, _)
\* Faulty variant: only Some(false) ends the comparison, an unknown pair passes.
array_partial_eq_loop_lenient(ita, itb) ==
    LET na == ArrayIter_next(ita) IN
    IF na.value = None THEN Some(TRUE)
    ELSE LET nb == ArrayIter_next(itb) IN
         IF nb.value = None THEN Some(TRUE)
         ELSE LET e == reflect_partial_eq(Unwrap(na.value), Unwrap(nb.value)) IN
              IF e = Some(FALSE) THEN Some(FALSE)
              ELSE array_partial_eq_loop_lenient(na.iter, nb.iter)

RECURSIVE array_partial_eq_loop(_, _)
\* for (a, b) in array.iter().zip(reflect_array.iter())
array_partial_eq_loop(ita, itb) ==
    LET na == ArrayIter_next(ita) IN
    IF na.value = None THEN Some(TRUE)
    ELSE LET nb == ArrayIter_next(itb) IN
         IF nb.value = None THEN Some(TRUE)
         ELSE LET e == reflect_partial_eq(Unwrap(na.value), Unwrap(nb.value)) IN
              IF e = Some(FALSE) \/ e = None THEN Some(FALSE)
              ELSE array_partial_eq_loop(na.iter, nb.iter)

array_partial_eq(array, reflect) ==
    IF reflect_ref(reflect) = "Array" /\ Array_len(reflect) = Array_len(array)
    THEN array_partial_eq_loop(Array_iter(array), Array_iter(reflect))
    ELSE Some(FALSE)

RECURSIVE list_partial_eq_loop(_, _)
\* for (a_value, b_value) in a.iter().zip(list.iter())
list_partial_eq_loop(ita, itb) ==
    LET na == ArrayIter_next(ita) IN
    IF na.value = None THEN Some(TRUE)
    ELSE LET nb == ArrayIter_next(itb) IN
         IF nb.value = None THEN Some(TRUE)
         ELSE LET e == reflect_partial_eq(Unwrap(na.value), Unwrap(nb.value)) IN
              IF e = Some(FALSE) \/ e = None THEN Some(FALSE)
              ELSE list_partial_eq_loop(na.iter, nb.iter)

list_partial_eq(a, b) ==
    IF reflect_ref(b) # "List" THEN Some(FALSE)
    ELSE IF Array_len(a) # Array_len(b) THEN Some(FALSE)
    ELSE list_partial_eq_loop(Array_iter(a), Array_iter(b))

reflect_partial_eq(self, value) ==
    CASE self.ty = "DynamicArray" -> array_partial_eq(self, value)
      [] self.ty = "DynamicList" -> list_partial_eq(self, value)
      [] OTHER -> value_partial_eq(self, value)

\* ------------------------------------------------ set
\* Faulty variant: any container is accepted and turned into a DynamicArray.
DynamicArray_set_coercing(self, value) ==
    IF reflect_ref(value) # "Value"
    THEN [val |-> [value EXCEPT !.ty = "DynamicArray"], ok |-> TRUE]
    ELSE [val |-> self, ok |-> FALSE]

\* *self = value.take()?; Ok(())
DynamicArray_set(self, value) ==
    IF value.ty = "DynamicArray"
    THEN [val |-> value, ok |-> TRUE]
    ELSE [val |-> self, ok |-> FALSE]

DynamicList_set(self, value) ==
    IF value.ty = "DynamicList"
    THEN [val |-> value, ok |-> TRUE]
    ELSE [val |-> self, ok |-> FALSE]

Reflect_set(self, value) ==
    IF self.ty = "DynamicArray"
    THEN DynamicArray_set(self, value)
    ELSE DynamicList_set(self, value)

\* ------------------------------------------------ inputs
\* The sequence of n copies of e.
Repeat(e, n) == [i \in 1..n |-> e]
\* The sequence I32(1), I32(2), ... of length n (values wrap at MaxInt).
Ramp(n) == [i \in 1..n |-> I32(((i - 1) % MaxInt) + 1)]

Ints == {I32(k) : k \in 1..MaxInt}

\* The values a caller pushes.
Elems ==
    Ints \cup {Opaque, DynamicList_default, DynamicArray_new(<<I32(1)>>)}

\* The elements of the containers a caller passes to apply, set and
\* reflect_partial_eq.
ArgElems ==
    {I32(1), I32(MaxInt), Opaque,
               List_push(DynamicList_default, I32(1)),
               DynamicArray_new(<<I32(MaxInt)>>),
               DynamicArray_new(<<>>)}

ArgSeqs ==
    {Repeat(e, n) : e \in ArgElems, n \in 0..MaxLen}
        \cup {Ramp(n) : n \in 2..MaxLen}

\* A DynamicList built by pushing the elements of s onto the default list.
DynamicList_of(s) == [DynamicList_default EXCEPT !.values = s]

\* Two containers a caller has labelled with set_name.
Named ==
    {set_name(DynamicArray_new(Ramp(2)), "T"),
     set_name(DynamicList_of(Ramp(2)), "T")}

Args ==
    {DynamicArray_new(s) : s \in ArgSeqs}
        \cup {DynamicList_of(s) : s \in ArgSeqs}
        \cup Named
        \cup {I32(1)}

InitSeqs ==
    ArgSeqs \cup {Repeat(e, n) : e \in Elems, n \in 1..MaxLen}

\* ------------------------------------------------ state
VARIABLES
    self,       \* the container under test: a DynamicArray or a DynamicList
    pre,        \* self as it was when the last operation was called
    op,         \* the last operation called on self
    arg,        \* its argument
    result,     \* what it returned
    aborted,    \* whether it panicked
    again,      \* the last two operations were the same successful apply
    iter,       \* the live ArrayIter over self, if any (an Option)
    yielded     \* what the live iterator's next() has returned, in order

vars == <<self, pre, op, arg, result, aborted, again, iter, yielded>>

Init ==
    /\ self \in {DynamicList_default} \cup {DynamicArray_new(s) : s \in InitSeqs}
    /\ pre = self
    /\ op = "new"
    /\ arg = NoArg
    /\ result = None
    /\ aborted = FALSE
    /\ again = FALSE
    /\ iter = None
    /\ yielded = <<>>

\* self may be mutated: no panic has ended the run, no iterator borrows it.
Idle == ~aborted /\ iter = None

\* List::push / DynamicList::push_box
Push(value) ==
    /\ Idle
    /\ self.ty = "DynamicList"
    /\ Array_len(self) < MaxLen
    /\ self' = List_push(self, value)
    /\ pre' = self
    /\ op' = "push"
    /\ arg' = value
    /\ result' = None
    /\ again' = FALSE
    /\ UNCHANGED <<aborted, iter, yielded>>

\* Reflect::apply
Apply(value) ==
    /\ Idle
    /\ LET r == Reflect_apply(self, value) IN
        /\ self' = r.val
        /\ aborted' = ~r.ok
    /\ pre' = self
    /\ op' = "apply"
    /\ arg' = value
    /\ result' = None
    /\ again' = (op = "apply" /\ arg = value)
    /\ UNCHANGED <<iter, yielded>>

\* Reflect::set
Set(value) ==
    /\ Idle
    /\ LET r == Reflect_set(self, value) IN
        /\ self' = r.val
        /\ result' = IF r.ok THEN <<"Ok">> ELSE <<"Err", value>>
    /\ pre' = self
    /\ op' = "set"
    /\ arg' = value
    /\ again' = FALSE
    /\ UNCHANGED <<aborted, iter, yielded>>

\* Reflect::reflect_partial_eq
PartialEq(value) ==
    /\ Idle
    /\ result' = reflect_partial_eq(self, value)
    /\ pre' = self
    /\ op' = "reflect_partial_eq"
    /\ arg' = value
    /\ again' = FALSE
    /\ UNCHANGED <<self, aborted, iter, yielded>>

\* Reflect::reflect_hash
Hash ==
    /\ Idle
    /\ result' = reflect_hash(self)
    /\ pre' = self
    /\ op' = "reflect_hash"
    /\ arg' = NoArg
    /\ again' = FALSE
    /\ UNCHANGED <<self, aborted, iter, yielded>>

\* Array::clone_dynamic_array
CloneDynamicArray ==
    /\ Idle
    /\ result' = Some(clone_dynamic_array(self))
    /\ pre' = self
    /\ op' = "clone_dynamic_array"
    /\ arg' = NoArg
    /\ again' = FALSE
    /\ UNCHANGED <<self, aborted, iter, yielded>>

\* Array::iter
Iter ==
    /\ Idle
    /\ iter' = Some(Array_iter(self))
    /\ yielded' = <<>>
    /\ pre' = self
    /\ op' = "iter"
    /\ arg' = NoArg
    /\ result' = None
    /\ again' = FALSE
    /\ UNCHANGED <<self, aborted>>

\* ArrayIter::next
Next_ ==
    /\ ~aborted
    /\ iter # None
    /\ Unwrap(iter).index < Array_len(self) + MaxOver
    /\ LET n == ArrayIter_next(Unwrap(iter)) IN
        /\ iter' = Some(n.iter)
        /\ yielded' = Append(yielded, n.value)
    /\ op' = "next"
    /\ UNCHANGED <<self, pre, arg, result, aborted, again>>

\* The iterator goes out of scope.
DropIter ==
    /\ ~aborted
    /\ iter # None
    /\ iter' = None
    /\ yielded' = <<>>
    /\ op' = "drop"
    /\ UNCHANGED <<self, pre, arg, result, aborted, again>>

Next ==
    \/ \E value \in Elems : Push(value)
    \/ \E value \in Args : Apply(value)
    \/ \E value \in Args : Set(value)
    \/ \E value \in Args : PartialEq(value)
    \/ Hash
    \/ CloneDynamicArray
    \/ Iter
    \/ Next_
    \/ DropIter

Spec == Init /\ [][Next]_vars

\* ------------------------------------------------ what a patch is
RECURSIVE PatchAborts(_, _)
\* Patching old from src panics: a plain value of another type, a source of
\* the wrong kind, an array of another length, or a panic further down.
PatchAborts(old, src) ==
    CASE old.ty = "DynamicArray" ->
            \/ reflect_ref(src) # "Array"
            \/ Len(src.values) # Len(old.values)
            \/ \E i \in 1..Len(old.values) : PatchAborts(old.values[i], src.values[i])
      [] old.ty = "DynamicList" ->
            \/ reflect_ref(src) # "List"
            \/ \E i \in 1..Min(Len(old.values), Len(src.values)) :
                    PatchAborts(old.values[i], src.values[i])
      [] OTHER -> src.ty # old.ty

RECURSIVE IsPatch(_, _, _)
\* new is old after it has received the whole patch src: a plain value takes
\* the source's value; an array is patched element by element; a list is
\* patched element by element, grows by the source's extra elements and keeps
\* its own elements beyond the source's length.
IsPatch(old, src, new) ==
    CASE old.ty = "DynamicArray" ->
            /\ new.ty = old.ty
            /\ new.name = old.name
            /\ Len(new.values) = Len(old.values)
            /\ \A i \in 1..Len(old.values) :
                    IsPatch(old.values[i], src.values[i], new.values[i])
      [] old.ty = "DynamicList" ->
            /\ new.ty = old.ty
            /\ new.name = old.name
            /\ Len(new.values) = Max(Len(old.values), Len(src.values))
            /\ \A i \in 1..Len(new.values) :
                    IF i > Len(src.values) THEN new.values[i] = old.values[i]
                    ELSE IF i > Len(old.values) THEN new.values[i] = src.values[i]
                    ELSE IsPatch(old.values[i], src.values[i], new.values[i])
      [] OTHER -> new = src

\* The last operation was list_apply(pre, arg) with a List source.
ListApplied ==
    /\ op = "apply"
    /\ pre.ty = "DynamicList"
    /\ reflect_ref(arg) = "List"

\* The last operation was array_apply(pre, arg).
ArrayApplied ==
    /\ op = "apply"
    /\ pre.ty = "DynamicArray"

\* ------------------------------------------------ claims

\* C1: list_apply growth. When list_apply(T, S) returns for a target of
\* length m and a List source of length n > m, the target has length n, each
\* element at an index below m has been patched from S's element at that
\* index, and each appended element equals S's element at its index.
C1_ListApplyGrowth ==
    (ListApplied /\ ~aborted /\ Len(arg.values) > Len(pre.values)) =>
        /\ Len(self.values) = Len(arg.values)
        /\ \A i \in 1..Len(pre.values) :
                IsPatch(pre.values[i], arg.values[i], self.values[i])
        /\ \A i \in (Len(pre.values) + 1)..Len(arg.values) :
                self.values[i] = arg.values[i]

\* C1 witness: a longer source has patched one element and appended another.
C1_Witness ==
    /\ ListApplied
    /\ ~aborted
    /\ Len(pre.values) >= 1
    /\ Len(arg.values) > Len(pre.values)
    /\ self.values[1] # pre.values[1]

\* C2: list_apply never shrinks the target. With a List source of length
\* n <= m the target keeps its length m and its elements from index n on,
\* and no push or list_apply ever makes a list shorter.
C2_ListNeverShrinks ==
    /\ (ListApplied /\ Len(arg.values) <= Len(pre.values)) =>
            /\ Len(self.values) = Len(pre.values)
            /\ \A i \in (Len(arg.values) + 1)..Len(pre.values) :
                    self.values[i] = pre.values[i]
    /\ (op \in {"push", "apply"} /\ pre.ty = "DynamicList") =>
            Len(self.values) >= Len(pre.values)

\* C2 witness: a shorter source has patched the head of a longer list.
C2_Witness ==
    /\ ListApplied
    /\ ~aborted
    /\ Len(arg.values) >= 1
    /\ Len(arg.values) < Len(pre.values)
    /\ self # pre

\* A container that implements the Array capability.
ArrayCapable(x) == x.ty \in {"DynamicArray", "DynamicList"}

\* The first index at which patching old's elements from src's panics.
FirstAbort(old, src) ==
    CHOOSE k \in 1..Len(old.values) :
        /\ PatchAborts(old.values[k], src.values[k])
        /\ \A j \in 1..(k - 1) : ~PatchAborts(old.values[j], src.values[j])

\* C3 as claimed: array_apply with any Array-capable source of the target's
\* length completes, patches every element and keeps the length.
C3_AsClaimed ==
    (ArrayApplied /\ ArrayCapable(arg) /\ Len(arg.values) = Len(pre.values)) =>
        /\ ~aborted
        /\ Len(self.values) = Len(pre.values)
        /\ \A i \in 1..Len(pre.values) :
                IsPatch(pre.values[i], arg.values[i], self.values[i])

\* C3 amended: array_apply with a source of the Array kind (a List is not)
\* and of the target's length keeps the length; it completes exactly when no
\* element's own patch panics, and then every element has been patched from
\* the source's element at its index; when an element's patch panics, the
\* elements before it have been patched and those after it are untouched.
C3_ArrayApplySuccess ==
    (ArrayApplied /\ reflect_ref(arg) = "Array" /\ Len(arg.values) = Len(pre.values)) =>
        /\ Len(self.values) = Len(pre.values)
        /\ aborted <=> \E i \in 1..Len(pre.values) :
                            PatchAborts(pre.values[i], arg.values[i])
        /\ ~aborted =>
                \A i \in 1..Len(pre.values) :
                    IsPatch(pre.values[i], arg.values[i], self.values[i])
        /\ aborted =>
                LET k == FirstAbort(pre, arg) IN
                /\ \A i \in 1..(k - 1) :
                        IsPatch(pre.values[i], arg.values[i], self.values[i])
                /\ \A i \in (k + 1)..Len(pre.values) :
                        self.values[i] = pre.values[i]

\* C3 witness: an array of the same length has patched the target.
C3_Witness ==
    /\ ArrayApplied
    /\ reflect_ref(arg) = "Array"
    /\ Len(arg.values) = Len(pre.values)
    /\ Len(pre.values) >= 2
    /\ ~aborted
    /\ self.values[2] # pre.values[2]

\* C4: a mismatched source leaves the target untouched. array_apply with a
\* source that is not an Array, or is an Array of another length, panics with
\* the target unchanged; so does list_apply with a source that is not a List.
C4_MismatchLeavesTarget ==
    /\ (ArrayApplied /\ (reflect_ref(arg) # "Array"
                            \/ Len(arg.values) # Len(pre.values))) =>
            (aborted /\ self = pre)
    /\ (op = "apply" /\ pre.ty = "DynamicList" /\ reflect_ref(arg) # "List") =>
            (aborted /\ self = pre)

\* C4 witness: an array of another length was applied to a non-empty array.
C4_Witness ==
    /\ ArrayApplied
    /\ reflect_ref(arg) = "Array"
    /\ Len(pre.values) >= 1
    /\ Len(arg.values) # Len(pre.values)
    /\ aborted

\* C5 as claimed: any Array-capable container with hashable elements hashes
\* like its clone_dynamic_array.
C5_AsClaimed ==
    (op = "clone_dynamic_array" /\ ArrayCapable(pre) /\ array_hash(pre) # None) =>
        array_hash(Unwrap(result)) = array_hash(pre)

\* C5 amended: a DynamicArray with hashable elements hashes like its
\* clone_dynamic_array.
C5_HashOfClone ==
    (op = "clone_dynamic_array" /\ pre.ty = "DynamicArray" /\ array_hash(pre) # None) =>
        array_hash(Unwrap(result)) = array_hash(pre)

\* C5 witness: a hashable DynamicArray of two elements was cloned.
C5_Witness ==
    /\ op = "clone_dynamic_array"
    /\ pre.ty = "DynamicArray"
    /\ Len(pre.values) >= 2
    /\ array_hash(pre) # None

\* C6: container equality is definite, and true exactly when the other
\* value is of the container's kind, has its length, and every pair of
\* elements at the same index reports true.
C6_PartialEqDefinite ==
    op = "reflect_partial_eq" =>
        /\ result \in {Some(TRUE), Some(FALSE)}
        /\ result = Some(TRUE) <=>
                /\ reflect_ref(arg) = reflect_ref(pre)
                /\ Len(arg.values) = Len(pre.values)
                /\ \A i \in 1..Len(pre.values) :
                        reflect_partial_eq(pre.values[i], arg.values[i]) = Some(TRUE)

\* C6 witness: two containers of two elements compared equal.
C6_Witness ==
    /\ op = "reflect_partial_eq"
    /\ Len(pre.values) >= 2
    /\ result = Some(TRUE)

\* C7: array_hash returns no value exactly when some element, at whatever
\* index, has no hash; the empty container has a hash.
C7_HashAbsentIffElement ==
    op = "reflect_hash" =>
        (result = None <=>
            \E i \in 1..Len(pre.values) : reflect_hash(pre.values[i]) = None)

\* C7 witness: the unhashable element is not the first one.
C7_Witness ==
    /\ op = "reflect_hash"
    /\ Len(pre.values) >= 2
    /\ reflect_hash(pre.values[1]) # None
    /\ result = None

\* C8: set succeeds only for a value of the container's own erased type,
\* and then replaces name and elements; otherwise it reports an error and
\* leaves the container as it was.
C8_SetSameTypeOnly ==
    op = "set" =>
        IF arg.ty = pre.ty
        THEN result = <<"Ok">> /\ self = arg
        ELSE result = <<"Err", arg>> /\ self = pre

\* C8 witness: an Erased List was given to a non-empty Erased Array.
C8_Witness ==
    /\ op = "set"
    /\ pre.ty = "DynamicArray"
    /\ arg.ty = "DynamicList"
    /\ Len(pre.values) >= 1
    /\ Len(arg.values) >= 1
    /\ result[1] = "Err"

\* C9: list_apply is idempotent. Applying the same List source again to a
\* list it has just been applied to completes and changes nothing.
C9_ListApplyIdempotent ==
    (ListApplied /\ again) => (~aborted /\ self = pre)

\* C9 witness: a source of two elements was applied twice in a row.
C9_Witness ==
    /\ ListApplied
    /\ again
    /\ Len(arg.values) >= 2
    /\ ~aborted

\* C10: the iterator's size_hint is the number of elements it has yet to
\* yield, max(n - k, 0) after k calls of next(), and next() yields the
\* elements at indices 0..n-1 in order and nothing afterwards.
C10_SizeHintIsRemaining ==
    iter # None =>
        LET k == Len(yielded)
            n == Array_len(self)
            remaining == Max(n - k, 0)
        IN /\ ArrayIter_size_hint(Unwrap(iter)) = <<remaining, Some(remaining)>>
           /\ \A j \in 1..k :
                yielded[j] = IF j <= n THEN Some(self.values[j]) ELSE None

====
